---- MODULE Spec2Model ----
(***************************************************************************)
(* Model of the svim-rs editor core: the event loop of Editor::run, the    *)
(* key dispatch of Editor::process_keypress, the cursor controller         *)
(* Editor::move_cursor, Editor::scroll, and the save-as prompt of          *)
(* Editor::prompt / Editor::save (src/src/editor.rs).                      *)
(*                                                                         *)
(* Document and Row (crate::document, crate::row) are not part of the      *)
(* available sources; their operations are modelled from the               *)
(* specification text (sections 4.1 and 4.2).                              *)
(*                                                                         *)
(* Characters are modelled by one-letter strings:                          *)
(*   "a"  a printable one-byte character                                   *)
(*   "U"  a printable character whose UTF-8 encoding is two bytes          *)
(*   "T"  a control character other than the line break ('\t')             *)
(*   "N"  the line break '\n' (termion reports Enter as Key::Char('\n'))   *)
(* A Row and a Rust String are sequences of such characters.               *)
(***************************************************************************)
EXTENDS Integers, Sequences, FiniteSets, TLC

\* ------------------------------------------------------------------ bounds
MaxRows == 2
MaxChars == 2
MaxName == 1
MaxWidth == 2
MaxHeight == 2

\* ------------------------------------------------------- program constants
QUIT_TIMES == 3

\* --------------------------------------------------------------- variables
VARIABLES
    pc,            \* position in Editor::run / Editor::prompt
    should_quit,   \* Editor.should_quit
    quit_times,    \* Editor.quit_times (u8)
    cursor_posi,   \* Editor.cursor_posi
    offset,        \* Editor.offset
    size,          \* Editor.terminal.size
    rows,          \* Editor.document: the rows
    file_name,     \* Editor.document.file_name : Option<String>
    dirty,         \* Editor.document: the dirty flag
    status_msg,    \* Editor.status_msg (text only)
    result,        \* the local `result` of Editor::prompt
    ctrlq_run      \* number of quit-key presses handled since the last other key

vars == <<pc, should_quit, quit_times, cursor_posi, offset, size, rows,
          file_name, dirty, status_msg, result, ctrlq_run>>

\* -------------------------------------------------------------- characters
Chars == {"a", "U", "T", "N"}

\* char::is_control
is_control(c) == c \in {"T", "N"}

\* char::len_utf8
len_utf8(c) == IF c = "U" THEN 2 ELSE 1

RECURSIVE ByteLen(_)
\* String::len : the length of a String in bytes
ByteLen(s) == IF s = <<>> THEN 0 ELSE len_utf8(Head(s)) + ByteLen(Tail(s))

\* ------------------------------------------------------------------- keys
Key(kind, c) == [kind |-> kind, c |-> c]

NavKinds == {"Up", "Down", "Left", "Right", "PageDown", "PageUp"}

\* keys that reach the `_ => ()` arm of process_keypress
OtherKinds == {"Home", "End", "Esc"}

\* ------------------------------------------------------------- arithmetic
\* usize::saturating_sub
saturating_sub(a, b) == IF a > b THEN a - b ELSE 0

\* usize::saturating_add; every value of the model is far below usize::MAX,
\* so the saturation bound is never reached
saturating_add(a, b) == a + b

Min(a, b) == IF a < b THEN a ELSE b
Max(a, b) == IF a > b THEN a ELSE b

Position(x, y) == [x |-> x, y |-> y]

\* ---------------------------------------------------------- status message
Msg(text, n, input) == [text |-> text, n |-> n, input |-> input]
Plain(text) == Msg(text, 0, <<>>)

\* Option<String>
None == [some |-> FALSE, name |-> <<>>]
Some(s) == [some |-> TRUE, name |-> s]

\* ------------------------------------------------------------ Row (4.1)
\* Row::len : the number of characters
Row_len(row) == Len(row)

\* Row::insert : insert ch before column at; append when at >= length
Row_insert(row, at, ch) ==
    IF at >= Len(row)
    THEN Append(row, ch)
    ELSE SubSeq(row, 1, at) \o <<ch>> \o SubSeq(row, at + 1, Len(row))

\* Row::delete : remove the character at column at; no-op when at >= length
Row_delete(row, at) ==
    IF at >= Len(row)
    THEN row
    ELSE SubSeq(row, 1, at) \o SubSeq(row, at + 2, Len(row))

\* Row::split : the row keeps [0, at), the returned row holds [at, length)
Row_split(row, at) == <<SubSeq(row, 1, at), SubSeq(row, at + 1, Len(row))>>

\* ------------------------------------------------------- Document (4.2)
\* Document::len
Doc_len(rs) == Len(rs)

\* Document::row(y) is present
Doc_has_row(rs, y) == y < Len(rs)

\* Document::row(y), for a present row (rows are indexed from 0 in the code)
Doc_row(rs, y) == rs[y + 1]

\* the length of row y, 0 when the row is absent
\* (the `if let Some(row) = self.document.row(y) { row.len() } else { 0 }`
\* of move_cursor)
RowWidth(rs, y) == IF Doc_has_row(rs, y) THEN Row_len(Doc_row(rs, y)) ELSE 0

\* Document::insert of a line break: split row at.y at column at.x and put
\* the tail right after it; at the append position a new empty row is added
Doc_insert_newline(rs, at) ==
    IF at.y > Len(rs) THEN rs
    ELSE IF at.y = Len(rs) THEN Append(rs, <<>>)
    ELSE LET parts == Row_split(Doc_row(rs, at.y), at.x)
         IN SubSeq(rs, 1, at.y) \o <<parts[1], parts[2]>>
                \o SubSeq(rs, at.y + 2, Len(rs))

\* Document::insert : the rows after inserting ch at position at
Doc_insert(rs, at, ch) ==
    IF ch = "N" THEN Doc_insert_newline(rs, at)
    ELSE IF at.y = Len(rs) THEN Append(rs, <<ch>>)
    ELSE IF at.y < Len(rs)
         THEN [rs EXCEPT ![at.y + 1] = Row_insert(@, at.x, ch)]
         ELSE rs

\* Document::delete : the rows after deleting at position at
Doc_delete(rs, at) ==
    IF at.y >= Len(rs) THEN rs
    ELSE IF at.x = Row_len(Doc_row(rs, at.y)) /\ at.y + 1 < Len(rs)
         THEN SubSeq(rs, 1, at.y)
                  \o <<Doc_row(rs, at.y) \o Doc_row(rs, at.y + 1)>>
                  \o SubSeq(rs, at.y + 3, Len(rs))
         ELSE [rs EXCEPT ![at.y + 1] = Row_delete(@, at.x)]

\* Document::delete marks the document dirty unless it is a no-op past the
\* end of the buffer
Doc_delete_dirty(rs, at, d) == IF at.y >= Len(rs) THEN d ELSE TRUE

\* ------------------------------------------------- cursor controller
\* Key::Up arm
MoveUp(pos) == Position(pos.x, saturating_sub(pos.y, 1))

\* Key::Down arm
MoveDown(pos, rs) ==
    IF pos.y < Doc_len(rs)
    THEN Position(pos.x, saturating_add(pos.y, 1))
    ELSE pos

MoveLeft_WrapToStart(pos, rs) ==
    IF pos.x > 0 THEN Position(pos.x - 1, pos.y)
    ELSE IF pos.y > 0 THEN Position(0, pos.y - 1)
    ELSE pos

MoveLeft_NoWrap(pos, rs) ==
    IF pos.x > 0 THEN Position(pos.x - 1, pos.y) ELSE pos

\* Key::Left arm
MoveLeft(pos, rs) ==
    IF pos.x > 0 THEN Position(pos.x - 1, pos.y)
    ELSE IF pos.y > 0
         THEN Position(IF Doc_has_row(rs, pos.y - 1)
                       THEN Row_len(Doc_row(rs, pos.y - 1))
                       ELSE 0,
                       pos.y - 1)
         ELSE pos

MoveRight_Stay(pos, rs) == pos

\* Key::Right arm
MoveRight(pos, rs) ==
    IF pos.x < RowWidth(rs, pos.y) THEN Position(pos.x + 1, pos.y)
    ELSE IF pos.y < Doc_len(rs) THEN Position(0, pos.y + 1)
    ELSE pos

MovePageUp_ToTop(pos, terminal_height) == Position(pos.x, 0)

\* Key::PageUp arm
MovePageUp(pos, terminal_height) ==
    Position(pos.x,
             IF pos.y > terminal_height
             THEN saturating_sub(pos.y, terminal_height)
             ELSE 0)

\* Key::PageDown arm
MovePageDown(pos, rs, terminal_height) ==
    Position(pos.x,
             IF saturating_add(pos.y, terminal_height) < Doc_len(rs)
             THEN saturating_add(pos.y, terminal_height)
             ELSE Doc_len(rs))

\* Key::Home arm
MoveHome(pos) == Position(0, pos.y)

\* Key::End arm
MoveEnd(pos, rs) == Position(RowWidth(rs, pos.y), pos.y)

ClampX_NoClamp(pos, rs) == pos

\* the final reclamp of x to the length of the row the cursor is now on
ClampX(pos, rs) ==
    IF pos.x > RowWidth(rs, pos.y)
    THEN Position(RowWidth(rs, pos.y), pos.y)
    ELSE pos

\* Editor::move_cursor
move_cursor(pos, kind, rs, sz) ==
    ClampX(CASE kind = "Up"       -> MoveUp(pos)
             [] kind = "Down"     -> MoveDown(pos, rs)
             [] kind = "Left"     -> MoveLeft(pos, rs)
             [] kind = "Right"    -> MoveRight(pos, rs)
             [] kind = "PageUp"   -> MovePageUp(pos, sz.height)
             [] kind = "PageDown" -> MovePageDown(pos, rs, sz.height)
             [] kind = "Home"     -> MoveHome(pos)
             [] kind = "End"      -> MoveEnd(pos, rs)
             [] OTHER             -> pos,
           rs)

ScrollAxis_Follow(c, o, extent) == c

\* one axis of Editor::scroll: c the cursor coordinate, o the offset
\* coordinate, extent the terminal width or height
ScrollAxis(c, o, extent) ==
    IF c < o THEN c
    ELSE IF c >= saturating_add(o, extent)
         THEN saturating_add(saturating_add(c, extent), 1)
         ELSE o

\* Editor::scroll : the new offset
scroll(pos, off, sz) ==
    Position(ScrollAxis(pos.x, off.x, sz.width),
             ScrollAxis(pos.y, off.y, sz.height))

\* ------------------------------------------------------ initial states
\* terminal sizes reported by termion::terminal_size
Sizes == {[width |-> MaxWidth, height |-> h] : h \in {1, MaxHeight}}

\* the line contents of the files Document::open may load
InitFiles == { <<>>, << <<"a", "U">>, <<>> >>, << <<"a">>, <<"a">> >> }

\* Editor::default
Init ==
    /\ pc = "refresh"
    /\ should_quit = FALSE
    /\ quit_times = QUIT_TIMES
    /\ cursor_posi = Position(0, 0)
    /\ offset = Position(0, 0)
    /\ size \in Sizes
    /\ \E start \in {"no_arg", "opened", "open_failed"} :
         /\ rows \in (IF start = "opened" THEN InitFiles ELSE {<<>>})
         /\ file_name = (IF start = "opened" THEN Some(<<"a">>) ELSE None)
         /\ status_msg = (IF start = "open_failed"
                          THEN Plain("Err: Cound not open file")
                          ELSE Plain("HELP"))
    /\ dirty = FALSE
    /\ result = <<>>
    /\ ctrlq_run = 0

\* ------------------------------------------------------------ Editor::run
\* refresh_screen at the top of the loop, then the should_quit test; a
\* failed Terminal::flush goes to die()
Refresh ==
    /\ pc = "refresh"
    /\ \E ok \in BOOLEAN :
         pc' = (IF ~ok THEN "dead" ELSE IF should_quit THEN "done" ELSE "read")
    /\ UNCHANGED <<should_quit, quit_times, cursor_posi, offset, size, rows,
                   file_name, dirty, status_msg, result, ctrlq_run>>

\* Terminal::read_key()? fails in process_keypress: run calls die()
ReadKeyFail ==
    /\ pc = "read"
    /\ pc' = "dead"
    /\ UNCHANGED <<should_quit, quit_times, cursor_posi, offset, size, rows,
                   file_name, dirty, status_msg, result, ctrlq_run>>

\* ------------------------------------------------ Editor::process_keypress
QuitNeedsConfirm_OneFewer(qt, d) == qt > 1 /\ d

QuitNeedsConfirm_AlsoClean(qt, d) == qt > 0

QuitNeedsConfirm_NoCounter(qt, d) == d

\* the guard of the Ctrl-Q arm
QuitNeedsConfirm(qt, d) == qt > 0 /\ d

ResetQuitTimes_Keep(qt) == qt

\* the counter after the reset at the end of process_keypress
ResetQuitTimes(qt) == IF qt < QUIT_TIMES THEN QUIT_TIMES ELSE qt

\* the end of process_keypress after the match: scroll, reset of the
\* counter (which also blanks the status message), return to the loop
Finish(cur, st) ==
    /\ cursor_posi' = cur
    /\ offset' = scroll(cur, offset, size)
    /\ quit_times' = ResetQuitTimes(quit_times)
    /\ status_msg' = (IF quit_times < QUIT_TIMES THEN Plain("") ELSE st)
    /\ pc' = "refresh"

\* Key::Ctrl('q')
KeyCtrlQ ==
    /\ pc = "read"
    /\ ctrlq_run' = ctrlq_run + 1
    /\ IF QuitNeedsConfirm(quit_times, dirty)
       THEN /\ status_msg' = Msg("WARNING! File has unsaved changes.", quit_times, <<>>)
            /\ quit_times' = (quit_times + 255) % 256
            /\ pc' = "refresh"
            /\ UNCHANGED <<should_quit, cursor_posi, offset>>
       ELSE /\ should_quit' = TRUE
            /\ Finish(cursor_posi, status_msg)
    /\ UNCHANGED <<size, rows, file_name, dirty, result>>

\* Editor::save from the point where the file name is known: Document::save
\* succeeds or fails, the status message reports it
SaveAs(name) ==
    /\ file_name' = name
    /\ \E ok \in BOOLEAN :
         /\ dirty' = (IF ok THEN FALSE ELSE dirty)
         /\ Finish(cursor_posi,
                   IF ok THEN Plain("File saved successfully.")
                   ELSE Plain("File save failed."))

\* Editor::save when prompt returned None or an error
SaveAborted ==
    /\ Finish(cursor_posi, Plain("Save aborted."))
    /\ UNCHANGED <<file_name, dirty>>

\* Key::Ctrl('s'): save directly, or open the save-as prompt
KeyCtrlS ==
    /\ pc = "read"
    /\ ctrlq_run' = 0
    /\ IF file_name.some
       THEN /\ SaveAs(file_name)
            /\ UNCHANGED result
       ELSE /\ pc' = "prompt"
            /\ result' = <<>>
            /\ status_msg' = Msg("Save as: ", 0, <<>>)
            /\ UNCHANGED <<file_name, dirty, cursor_posi, offset, quit_times>>
    /\ UNCHANGED <<should_quit, size, rows>>

KeyMove_Deleting(kind) ==
    /\ pc = "read"
    /\ rows' = Doc_delete(rows, cursor_posi)
    /\ dirty' = TRUE
    /\ Finish(move_cursor(cursor_posi, kind, rows, size), status_msg)
    /\ ctrlq_run' = 0
    /\ UNCHANGED <<should_quit, size, file_name, result>>

\* Key::Up | Down | Left | Right | PageDown | PageUp
KeyMove(kind) ==
    /\ pc = "read"
    /\ Finish(move_cursor(cursor_posi, kind, rows, size), status_msg)
    /\ ctrlq_run' = 0
    /\ UNCHANGED <<should_quit, size, rows, file_name, dirty, result>>

BackspaceActs_OnlyInRow(pos) == pos.x > 0

\* the guard of the Backspace arm
BackspaceActs(pos) == pos.x > 0 \/ pos.y > 0

\* the cursor after the Backspace arm
BackspaceCursor(rs, pos, sz) ==
    IF BackspaceActs(pos) THEN move_cursor(pos, "Left", rs, sz) ELSE pos

\* the rows after the Backspace arm
BackspaceRows(rs, pos, sz) ==
    IF BackspaceActs(pos) THEN Doc_delete(rs, BackspaceCursor(rs, pos, sz)) ELSE rs

\* Key::Backspace
KeyBackspace ==
    /\ pc = "read"
    /\ ctrlq_run' = 0
    /\ rows' = BackspaceRows(rows, cursor_posi, size)
    /\ dirty' = (IF BackspaceActs(cursor_posi)
                 THEN Doc_delete_dirty(rows, BackspaceCursor(rows, cursor_posi, size), dirty)
                 ELSE dirty)
    /\ Finish(BackspaceCursor(rows, cursor_posi, size), status_msg)
    /\ UNCHANGED <<should_quit, size, file_name, result>>

RECURSIVE TotalChars(_)
\* the number of characters of all rows together
TotalChars(rs) == IF rs = <<>> THEN 0 ELSE Len(Head(rs)) + TotalChars(Tail(rs))

\* the document stays within the bounds of the model after inserting c
InsertFits(c) ==
    /\ c = "N" \/ cursor_posi.y = Doc_len(rows) => Doc_len(rows) < MaxRows
    /\ c # "N" => TotalChars(rows) < MaxChars

\* the characters typed into the document
EditChars == {"a", "U", "N"}

\* the rows after the Char arm
CharRows(rs, pos, c) == Doc_insert(rs, pos, c)

\* the cursor after the Char arm: Right on the document after the insert
CharCursor(rs, pos, c, sz) == move_cursor(pos, "Right", CharRows(rs, pos, c), sz)

\* Key::Char(c)
KeyChar(c) ==
    /\ pc = "read"
    /\ InsertFits(c)
    /\ rows' = CharRows(rows, cursor_posi, c)
    /\ dirty' = TRUE
    /\ Finish(CharCursor(rows, cursor_posi, c, size), status_msg)
    /\ ctrlq_run' = 0
    /\ UNCHANGED <<should_quit, size, file_name, result>>

\* every other key: the `_ => ()` arm
KeyOther(kind) ==
    /\ pc = "read"
    /\ Finish(cursor_posi, status_msg)
    /\ ctrlq_run' = 0
    /\ UNCHANGED <<should_quit, size, rows, file_name, dirty, result>>

\* --------------------------------------------------------- Editor::prompt
\* str::is_char_boundary : byte index n starts a character of s or is its end
is_char_boundary(s, n) ==
    \E k \in 0..Len(s) : ByteLen(SubSeq(s, 1, k)) = n

\* String::truncate(new_len) does not panic
truncate_ok(s, new_len) ==
    new_len >= ByteLen(s) \/ is_char_boundary(s, new_len)

\* String::truncate(new_len), when it does not panic
truncate(s, new_len) ==
    IF new_len >= ByteLen(s) THEN s
    ELSE SubSeq(s, 1, CHOOSE k \in 0..Len(s) : ByteLen(SubSeq(s, 1, k)) = new_len)

\* keys read by the prompt that reach its `_ => {}` arm
PromptOtherKinds == {"Delete", "CtrlQ"}

\* the keys the prompt may read
PromptKeys ==
    {Key("Backspace", ""), Key("Esc", "")}
        \cup {Key(kind, "") : kind \in PromptOtherKinds}
        \cup {Key("Char", c) : c \in Chars}

\* the key ends the loop with `break`
PromptBreaks(k) == (k.kind = "Char" /\ k.c = "N") \/ k.kind = "Esc"

\* the key makes String::truncate panic
PromptPanics(k, r) ==
    k.kind = "Backspace" /\ ~truncate_ok(r, saturating_sub(ByteLen(r), 1))

\* `result` after the match on the key
PromptResult(k, r) ==
    CASE k.kind = "Backspace" -> truncate(r, saturating_sub(ByteLen(r), 1))
      [] k.kind = "Char" /\ k.c = "N" -> r
      [] k.kind = "Char" /\ k.c # "N" -> IF ~is_control(k.c) THEN Append(r, k.c) ELSE r
      [] k.kind = "Esc" -> truncate(r, 0)
      [] OTHER -> r

PromptAborts_Never(r) == FALSE

\* the test at the end of a loop iteration: `if result.is_empty()`
PromptAborts(r) == r = <<>>

\* one iteration of the prompt loop fails in refresh_screen()? or in
\* read_key()?: prompt returns the error, save() turns it into None
PromptIoFail(failed) ==
    /\ pc = "prompt"
    /\ result' = <<>>
    /\ SaveAborted
    /\ UNCHANGED <<should_quit, size, rows, ctrlq_run>>

\* one iteration of the prompt loop with a key read; when the loop ends,
\* the rest of save() and of process_keypress runs
PromptKey(k) ==
    /\ pc = "prompt"
    /\ k.kind = "Char" /\ ~is_control(k.c) => Len(result) < MaxName
    /\ IF PromptPanics(k, result)
       THEN /\ pc' = "dead"
            /\ UNCHANGED <<result, status_msg, file_name, dirty,
                           cursor_posi, offset, quit_times>>
       ELSE LET r == PromptResult(k, result)
            IN IF PromptBreaks(k)
               THEN /\ result' = <<>>
                    /\ SaveAs(Some(r))
               ELSE IF PromptAborts(r)
               THEN /\ result' = <<>>
                    /\ SaveAborted
               ELSE /\ result' = r
                    /\ status_msg' = Msg("Save as: ", 0, r)
                    /\ pc' = "prompt"
                    /\ UNCHANGED <<file_name, dirty, cursor_posi, offset,
                                   quit_times>>
    /\ UNCHANGED <<should_quit, size, rows, ctrlq_run>>

\* ---------------------------------------------------------- specification
Next ==
    \/ Refresh
    \/ ReadKeyFail
    \/ KeyCtrlQ
    \/ KeyCtrlS
    \/ \E kind \in NavKinds : KeyMove(kind)
    \/ KeyBackspace
    \/ \E c \in EditChars : KeyChar(c)
    \/ \E kind \in OtherKinds : KeyOther(kind)
    \/ \E failed \in {"refresh_screen", "read_key"} : PromptIoFail(failed)
    \/ \E k \in PromptKeys : PromptKey(k)

Spec == Init /\ [][Next]_vars

TypeOK ==
    /\ pc \in {"refresh", "read", "prompt", "done", "dead"}
    /\ should_quit \in BOOLEAN
    /\ quit_times \in 0..QUIT_TIMES
    /\ dirty \in BOOLEAN

\* ------------------------------------------------------------ properties
\* the cursor lies inside the window of the given extent that starts at o
Visible(c, o, extent) == o <= c /\ c < o + extent

\* C1: with positive viewport width and height, the offset computed by
\* scroll() keeps the cursor inside the viewport on both axes
\* (offset <= cursor < offset + viewport size).
C1_ScrollKeepsCursorVisible ==
    (size.width > 0 /\ size.height > 0) =>
        /\ Visible(cursor_posi.y, offset.y, size.height)
        /\ Visible(cursor_posi.x, offset.x, size.width)

\* C2 as stated: on a dirty document, a run of consecutive quit-key presses
\* that starts with the counter at QUIT_TIMES quits on exactly the
\* QUIT_TIMES-th press.
C2_QuitsOnThirdPress ==
    (dirty /\ ctrlq_run > 0) => (should_quit <=> ctrlq_run = QUIT_TIMES)

\* C2 amended: on a dirty document, a run of consecutive quit-key presses
\* that starts with the counter at QUIT_TIMES quits on exactly the
\* (QUIT_TIMES + 1)-th press: QUIT_TIMES presses are answered with the
\* warning, the next one quits.
C2_QuitsOnFourthPress ==
    (dirty /\ ctrlq_run > 0) => (should_quit <=> ctrlq_run = QUIT_TIMES + 1)

C2_Witness ==
    dirty /\ ctrlq_run = QUIT_TIMES + 1 /\ should_quit /\ pc = "done"

\* a key other than the quit-key has been handled to the end of
\* process_keypress (directly, or through the save-as prompt)
OtherKeyHandled ==
    pc \in {"read", "prompt"} /\ pc' = "refresh" /\ ctrlq_run' = 0

\* C3: while a quit countdown is in progress (quit_times < QUIT_TIMES), the
\* handling of any key other than the quit-key leaves the counter at
\* QUIT_TIMES, does not quit, and ends the run of quit-key presses.
C3_OtherKeyResetsCountdown ==
    [][(quit_times < QUIT_TIMES /\ OtherKeyHandled) =>
          (quit_times' = QUIT_TIMES /\ ~should_quit' /\ ctrlq_run' = 0)]_vars

C3_Witness ==
    /\ pc = "refresh" /\ ctrlq_run = 0 /\ status_msg = Plain("")
    /\ quit_times = QUIT_TIMES /\ dirty /\ ~should_quit

\* C4: a quit-key press on a clean document sets should_quit at once, and
\* once should_quit is set the loop ends without reading another key.
C4_CleanQuitIsImmediate ==
    [][/\ (KeyCtrlQ /\ ~dirty) => (should_quit' /\ pc' = "refresh")
       /\ should_quit => pc' \in {"done", "dead"}]_vars

C4_Witness ==
    should_quit /\ ~dirty /\ ctrlq_run = 1 /\ pc = "done"

\* C5: the cursor is always inside the document: y is at most the row
\* count, and x is at most the length of row y (0 at the append position).
C5_CursorInDocument ==
    /\ 0 <= cursor_posi.y /\ cursor_posi.y <= Doc_len(rows)
    /\ 0 <= cursor_posi.x /\ cursor_posi.x <= RowWidth(rows, cursor_posi.y)

C5_Witness ==
    /\ dirty /\ Doc_len(rows) = 2
    /\ RowWidth(rows, 0) = 2 /\ RowWidth(rows, 1) = 0
    /\ cursor_posi = Position(0, 1)
    /\ pc = "refresh"

\* C6: the Home key puts the cursor at column 0 and the End key at the end
\* of the current row, the row unchanged.
C6_HomeEndMoveCursor ==
    [][/\ KeyOther("Home") => cursor_posi' = Position(0, cursor_posi.y)
       /\ KeyOther("End") =>
              cursor_posi' = Position(RowWidth(rows, cursor_posi.y), cursor_posi.y)]_vars

\* C7: Escape in the save-as prompt aborts the save: the file name stays
\* absent, no save is attempted (the document stays as dirty as it was, the
\* status reports the abort) and the editor is back in its main loop.
C7_EscapeAbortsSave ==
    [][PromptKey(Key("Esc", "")) =>
          /\ ~file_name'.some
          /\ dirty' = dirty
          /\ status_msg' \in {Plain("Save aborted."), Plain("")}
          /\ pc' = "refresh"]_vars

\* C8: every failure of the key read terminates the process, in the main
\* loop and in the save-as prompt alike.
C8_ReadFailureIsFatal ==
    [][(ReadKeyFail \/ PromptIoFail("read_key")) => pc' = "dead"]_vars

\* the cursor the claim C9 expects after Left
C9_Left(pos, rs) ==
    IF pos.x = 0 /\ pos.y > 0 THEN Position(RowWidth(rs, pos.y - 1), pos.y - 1)
    ELSE IF pos.x = 0 THEN pos
    ELSE Position(pos.x - 1, pos.y)

\* the cursor the claim C9 expects after Right
C9_Right(pos, rs) ==
    IF pos.y = Doc_len(rs) THEN pos
    ELSE IF pos.x = RowWidth(rs, pos.y) THEN Position(0, pos.y + 1)
    ELSE Position(pos.x + 1, pos.y)

\* C9: Left at column 0 of a row y > 0 goes to the end of row y-1, Right at
\* the end of a row goes to column 0 of the next row (or of the append
\* position); Left at (0, 0) and Right at the append position do not move.
C9_WrapAtLineBoundaries ==
    [][/\ KeyMove("Left") => cursor_posi' = C9_Left(cursor_posi, rows)
       /\ KeyMove("Right") => cursor_posi' = C9_Right(cursor_posi, rows)]_vars

C9_Witness ==
    /\ Doc_len(rows) = 2 /\ RowWidth(rows, 0) = 2
    /\ cursor_posi = Position(2, 0)
    /\ ~dirty /\ pc = "refresh"

\* the row the claim C10 expects after a vertical key
C10_Y(kind, y, h, n) ==
    CASE kind = "Up" -> Max(y - 1, 0)
      [] kind = "Down" -> Min(y + 1, n)
      [] kind = "PageUp" -> Max(y - h, 0)
      [] kind = "PageDown" -> Min(y + h, n)

\* C10: Up, Down, PageUp and PageDown move y by 1 or by the viewport height,
\* clamped to [0, row count], and x becomes min(x, length of the new row).
C10_VerticalMoves ==
    [][\A kind \in {"Up", "Down", "PageUp", "PageDown"} :
          KeyMove(kind) =>
              LET ny == C10_Y(kind, cursor_posi.y, size.height, Doc_len(rows))
              IN cursor_posi' = Position(Min(cursor_posi.x, RowWidth(rows, ny)), ny)]_vars

C10_Witness ==
    /\ size.height = 1 /\ Doc_len(rows) = 2
    /\ RowWidth(rows, 0) = 2 /\ RowWidth(rows, 1) = 0
    /\ cursor_posi = Position(0, 1) /\ offset.y = 1
    /\ ~dirty /\ pc = "refresh"

\* the rows the claim C11 expects after typing c at pos
C11_Inserted(rs, pos, c) ==
    IF pos.y = Len(rs) THEN Append(rs, <<c>>)
    ELSE [rs EXCEPT ![pos.y + 1] =
              SubSeq(@, 1, pos.x) \o <<c>> \o SubSeq(@, pos.x + 1, Len(@))]

\* C11: a printable (non-line-break) character typed at (x, y) is inserted
\* into the document at (x, y) (as a new last row at the append position),
\* the document is dirty and the cursor is at (x+1, y).
C11_TypingInsertsAtCursor ==
    [][pc = "read" =>
       \A c \in EditChars \ {"N"} :
          KeyChar(c) =>
              /\ rows' = C11_Inserted(rows, cursor_posi, c)
              /\ dirty'
              /\ cursor_posi' = Position(cursor_posi.x + 1, cursor_posi.y)]_vars

C11_Witness ==
    /\ rows = << <<"a", "U">> >> /\ cursor_posi = Position(2, 0)
    /\ dirty /\ ~file_name.some /\ pc = "refresh"

\* the row without the character at column at (columns count from 0)
C12_Without(row, at) == SubSeq(row, 1, at) \o SubSeq(row, at + 2, Len(row))

\* the rows with row y joined onto row y-1
C12_Joined(rs, y) ==
    SubSeq(rs, 1, y - 1) \o <<rs[y] \o rs[y + 1]>> \o SubSeq(rs, y + 2, Len(rs))

\* C12: Backspace at (0, 0) changes nothing; at (x, y) with x > 0 it removes
\* the character at column x-1 and leaves the cursor at (x-1, y); at (0, y)
\* with 0 < y < row count it joins row y onto row y-1 and leaves the cursor
\* at the join column.
C12_Backspace ==
    [][KeyBackspace =>
          LET x == cursor_posi.x
              y == cursor_posi.y
          IN /\ (x = 0 /\ y = 0) =>
                    UNCHANGED <<rows, dirty, cursor_posi>>
             /\ x > 0 =>
                    /\ rows' = [rows EXCEPT ![y + 1] = C12_Without(@, x - 1)]
                    /\ cursor_posi' = Position(x - 1, y)
             /\ (x = 0 /\ 0 < y /\ y < Len(rows)) =>
                    /\ rows' = C12_Joined(rows, y)
                    /\ cursor_posi' = Position(Len(rows[y]), y - 1)]_vars

C12_Witness ==
    /\ rows = << <<"a", "a">> >> /\ cursor_posi = Position(1, 0)
    /\ dirty /\ file_name = Some(<<"a">>) /\ pc = "refresh"

\* C13: a navigation key (arrow, Page, Home, End) leaves the rows, the file
\* name and the dirty flag as they were.
C13_NavigationKeepsDocument ==
    [][UNCHANGED <<rows, file_name, dirty>>
          \/ ~((\E kind \in NavKinds : KeyMove(kind))
                   \/ KeyOther("Home") \/ KeyOther("End"))]_vars

C13_Witness ==
    /\ rows = << <<"a", "U">>, <<>> >> /\ cursor_posi = Position(1, 0)
    /\ offset.x = 0 /\ ~dirty /\ file_name = Some(<<"a">>) /\ pc = "refresh"

\* C14: a save-key press on a document that has a file name leaves the
\* status message equal to the success or the failure report, in every state
\* where the key can be pressed, and the editor keeps running.
C14_SaveReportsOutcome ==
    [][(KeyCtrlS /\ file_name.some) =>
          /\ status_msg' \in {Plain("File saved successfully."),
                              Plain("File save failed.")}
          /\ ~should_quit'
          /\ pc' = "refresh"]_vars

\* the Enter key
Enter == Key("Char", "N")

\* the accumulated input the claims C15 and C16 expect after key k
Typed(k, r) ==
    CASE k.kind = "Backspace" -> SubSeq(r, 1, Len(r) - 1)
      [] k.kind = "Char" /\ ~is_control(k.c) -> Append(r, k.c)
      [] OTHER -> r

\* C15: when the accumulated input is empty after a key other than Enter
\* and Escape has been handled, the prompt ends at once with an absent
\* result: the save is aborted and the file name stays absent.
C15_EmptyInputAborts ==
    [][pc = "prompt" =>
       \A k \in PromptKeys \ {Enter, Key("Esc", "")} :
          (PromptKey(k) /\ pc' # "dead" /\ Typed(k, result) = <<>>) =>
              /\ pc' = "refresh"
              /\ ~file_name'.some
              /\ dirty' = dirty
              /\ status_msg' \in {Plain("Save aborted."), Plain("")}]_vars

C15_Witness ==
    /\ pc = "refresh" /\ status_msg = Plain("Save aborted.")
    /\ ~file_name.some /\ dirty /\ result = <<>>

\* C16: in the prompt a character key appends exactly that character unless
\* it is a control character, Backspace removes exactly the last character
\* whatever its byte width, and Enter on a non-empty input commits exactly
\* the accumulated characters as the file name.
C16_PromptEditsInput ==
    [][\A k \in PromptKeys :
          PromptKey(k) =>
              /\ (k.kind = "Char" /\ ~is_control(k.c)) =>
                     (pc' = "prompt" /\ result' = Append(result, k.c))
              /\ (k.kind = "Char" /\ is_control(k.c) /\ k # Enter /\ result # <<>>) =>
                     (pc' = "prompt" /\ result' = result)
              /\ (k.kind = "Backspace" /\ result # <<>>) =>
                     /\ pc' # "dead"
                     /\ Len(result) > 1 =>
                            (pc' = "prompt" /\ result' = Typed(k, result))
              /\ (k = Enter /\ result # <<>>) =>
                     file_name' = Some(result)]_vars

\* process_keypress is not in progress: the loop is between two key events
\* or has ended normally
BetweenKeys == pc \in {"refresh", "read", "done"}

\* C17: quit_times stays within 0..QUIT_TIMES (the u8 never wraps), and
\* between key events it is below QUIT_TIMES only right after quit-key
\* presses on a dirty document, by exactly the number of those presses.
C17_CounterInRange ==
    /\ 0 <= quit_times /\ quit_times <= QUIT_TIMES
    /\ (BetweenKeys /\ quit_times < QUIT_TIMES) =>
           (dirty /\ ctrlq_run > 0 /\ quit_times = QUIT_TIMES - ctrlq_run)
    /\ (BetweenKeys /\ ctrlq_run = 0) => quit_times = QUIT_TIMES

C17_Witness ==
    quit_times = 0 /\ dirty /\ ctrlq_run = QUIT_TIMES /\ pc = "read"

\* a character key followed by Backspace, from document rs and cursor pos:
\* the rows and the cursor afterwards
C18_Rows(rs, pos, c, sz) ==
    BackspaceRows(CharRows(rs, pos, c), CharCursor(rs, pos, c, sz), sz)

C18_Cursor(rs, pos, c, sz) ==
    BackspaceCursor(CharRows(rs, pos, c), CharCursor(rs, pos, c, sz), sz)

\* C18 as stated: in every Normal state, a character key (printable or line
\* break) followed by Backspace restores the rows and the cursor, the
\* append position included.
C18_TypeThenBackspaceRestores ==
    pc = "read" =>
        \A c \in EditChars :
            /\ C18_Rows(rows, cursor_posi, c, size) = rows
            /\ C18_Cursor(rows, cursor_posi, c, size) = cursor_posi

\* C18 amended: the cursor is always restored; the rows are restored when
\* the cursor starts on an existing row, and at the append position the
\* document is left with one additional empty last row.
C18_TypeThenBackspaceRestoresOnRows ==
    pc = "read" =>
        \A c \in EditChars :
            /\ C18_Cursor(rows, cursor_posi, c, size) = cursor_posi
            /\ C18_Rows(rows, cursor_posi, c, size) =
                   (IF cursor_posi.y < Len(rows) THEN rows ELSE Append(rows, <<>>))

C18_Witness ==
    /\ rows = << <<"a">>, <<>> >> /\ cursor_posi = Position(0, 1)
    /\ dirty /\ ~file_name.some /\ pc = "refresh"

\* process_keypress has run to its end, through scroll()
ScrollRan ==
    pc \in {"read", "prompt"} /\ pc' = "refresh" /\ quit_times' >= quit_times

\* C19 for one axis: c the cursor coordinate after the key, o and o2 the
\* offset before and after scroll()
C19_Axis(c, o, o2, extent) ==
    /\ (o <= c /\ c < o + extent) => o2 = o
    /\ c < o => o2 = c

\* C19: scroll() leaves the offset alone when the cursor is inside the
\* viewport and sets it to the cursor coordinate when the cursor is before
\* it, on both axes; it changes neither the cursor nor the document.
C19_ScrollOnlyWhenOutside ==
    [][/\ ScrollRan =>
              /\ C19_Axis(cursor_posi'.y, offset.y, offset'.y, size.height)
              /\ C19_Axis(cursor_posi'.x, offset.x, offset'.x, size.width)
       /\ UNCHANGED <<cursor_posi, rows, file_name, dirty>>
              \/ ~(\E kind \in OtherKinds : KeyOther(kind))]_vars

C19_Witness ==
    /\ size.height = 1 /\ cursor_posi = Position(0, 2) /\ offset.y = 2
    /\ ~dirty /\ pc = "refresh"

====
